---------------------------- MODULE Spec2Model ----------------------------
(***************************************************************************)
(* A model of the media gallery web application in                         *)
(* "hackathon backend/app.py": three Flask routes over one directory,      *)
(* static/videos.                                                          *)
(*                                                                         *)
(* A file name, a path and a URL are sequences of characters.  A character *)
(* is a one-character string for printable ASCII and the string "U+XXXX"   *)
(* for a character outside ASCII.                                          *)
(*                                                                         *)
(* The state is the file system as the application sees it (whether        *)
(* static/videos exists, the entries in it with their content, the paths   *)
(* written anywhere else) together with the request handled last, what its *)
(* calls into the file system did and the response it got.                 *)
(*                                                                         *)
(* Scope of the environment: the host is POSIX (os.sep is "/"), an         *)
(* existing media directory can be listed, templates/index.html renders.   *)
(* Creating the directory and writing a file can fail.                     *)
(***************************************************************************)
EXTENDS Integers, Sequences, FiniteSets, TLC

VARIABLES dir_exists, files, outside, req, calls, resp

vars == <<dir_exists, files, outside, req, calls, resp>>

---------------------------------------------------------------------------
(* Bounds of the model *)

\* number of distinct values uuid.uuid4() can return
NumTokens == 2
\* uploads are accepted while the directory holds fewer entries than this
MaxFiles == 3
\* number of entries put in the directory out of band before the first request
MaxInitFiles == 2
\* generated client file names are made of at most this many parts
MaxParts == 3

---------------------------------------------------------------------------
(* Characters and strings *)

Range(s) == {s[i] : i \in DOMAIN s}

\* the printable ASCII characters in code point order, from 32 (space) to 126;
\* "U+0060" stands for the grave accent
Ascii ==
  <<" ", "!", "\"", "#", "$", "%", "&", "'", "(", ")", "*", "+", ",", "-", ".", "/",
    "0", "1", "2", "3", "4", "5", "6", "7", "8", "9", ":", ";", "<", "=", ">", "?",
    "@", "A", "B", "C", "D", "E", "F", "G", "H", "I", "J", "K", "L", "M", "N", "O",
    "P", "Q", "R", "S", "T", "U", "V", "W", "X", "Y", "Z", "[", "\\", "]", "^", "_",
    "U+0060", "a", "b", "c", "d", "e", "f", "g", "h", "i", "j", "k", "l", "m", "n", "o",
    "p", "q", "r", "s", "t", "u", "v", "w", "x", "y", "z", "{", "|", "}", "~">>

\* the characters outside ASCII the model uses, with their code points:
\* e with acute accent, the combining acute accent, a CJK ideograph
NonAsciiCode ==
  [c \in {"U+00E9", "U+0301", "U+4E2D"} |->
     CASE c = "U+00E9" -> 233
       [] c = "U+0301" -> 769
       [] c = "U+4E2D" -> 20013]

\* the code points of the first n characters of Ascii, as a table
RECURSIVE AsciiCodes(_)
AsciiCodes(n) == IF n = 1 THEN Ascii[1] :> 32 ELSE (Ascii[n] :> (31 + n)) @@ AsciiCodes(n - 1)

AsciiCode == AsciiCodes(Len(Ascii))

\* Python's ord(c)
ord(c) == IF c \in DOMAIN NonAsciiCode THEN NonAsciiCode[c] ELSE AsciiCode[c]

\* Python's chr(n) for a printable ASCII code point
chr(n) == Ascii[n - 31]

\* str.lower() on one character: A-Z map to a-z, the other characters of the
\* model have no lowercase mapping
lower_char(c) == LET n == ord(c) IN IF n >= 65 /\ n <= 90 THEN chr(n + 32) ELSE c

\* str.lower()
lower(s) == [i \in DOMAIN s |-> lower_char(s[i])]

\* the first index from i on at which s and t differ or one of them ends
RECURSIVE FirstDifference(_, _, _)
FirstDifference(s, t, i) ==
  IF i > Len(s) \/ i > Len(t) \/ s[i] # t[i] THEN i ELSE FirstDifference(s, t, i + 1)

\* Python's s < t on strings: by code point, a proper prefix is smaller
str_lt(s, t) ==
  LET i == FirstDifference(s, t, 1)
  IN  IF i > Len(t) THEN FALSE
      ELSE IF i > Len(s) THEN TRUE
      ELSE ord(s[i]) < ord(t[i])

\* sorted(names) for the names of a directory listing (no two are equal):
\* the smallest first
RECURSIVE sorted(_)
sorted(S) ==
  IF S = {} THEN <<>>
  ELSE LET m == CHOOSE x \in S : \A y \in S \ {x} : str_lt(x, y)
       IN  <<m>> \o sorted(S \ {m})

\* index of the last c in s, 0 when there is none
LastIndex(s, c) ==
  IF c \in Range(s) THEN CHOOSE i \in DOMAIN s : s[i] = c /\ \A j \in (i+1)..Len(s) : s[j] # c
  ELSE 0

\* s.rsplit('.', 1)[1] for an s that contains a '.'
rsplit_ext(s) == SubSeq(s, LastIndex(s, ".") + 1, Len(s))

RECURSIVE Flatten(_)
Flatten(ss) == IF ss = <<>> THEN <<>> ELSE Head(ss) \o Flatten(Tail(ss))

---------------------------------------------------------------------------
(* Module constants of app.py *)

VIDEO_DIR == <<"s", "t", "a", "t", "i", "c", "/", "v", "i", "d", "e", "o", "s">>

UPLOAD_FOLDER == <<"s", "t", "a", "t", "i", "c", "/", "v", "i", "d", "e", "o", "s">>

ALLOWED_EXTENSIONS ==
  { <<"m", "p", "4">>, <<"a", "v", "i">>, <<"m", "o", "v">>, <<"w", "m", "v">>,
    <<"f", "l", "v">>, <<"w", "e", "b", "m">>, <<"j", "p", "g">>,
    <<"j", "p", "e", "g">>, <<"p", "n", "g">>, <<"g", "i", "f">> }

\* allowed_file without .lower(): the extension is compared as it is spelled
allowed_file_case_sensitive(filename) ==
  /\ "." \in Range(filename)
  /\ rsplit_ext(filename) \in ALLOWED_EXTENSIONS

allowed_file(filename) ==
  /\ "." \in Range(filename)
  /\ lower(rsplit_ext(filename)) \in ALLOWED_EXTENSIONS

---------------------------------------------------------------------------
(* werkzeug.utils.secure_filename, as called at line 67 *)

\* unicodedata.normalize("NFKD", c) for one character: the accented letter
\* decomposes into the letter and a combining accent
nfkd_char(c) == IF c = "U+00E9" THEN <<"e", "U+0301">> ELSE <<c>>

nfkd(s) == Flatten([i \in DOMAIN s |-> nfkd_char(s[i])])

\* s.encode("ascii", "ignore").decode("ascii")
ascii_ignore(s) == SelectSeq(s, LAMBDA c : ord(c) < 128)

\* s.replace(a, b) for one-character a and b
replace_char(s, a, b) == [i \in DOMAIN s |-> IF s[i] = a THEN b ELSE s[i]]

\* the whitespace among the characters of the model
Whitespace == {" "}

\* length of the run of characters outside W at the start of s
RECURSIVE WordLen(_, _)
WordLen(s, W) == IF s = <<>> \/ s[1] \in W THEN 0 ELSE 1 + WordLen(Tail(s), W)

\* s.split(): the maximal runs of non-whitespace characters
RECURSIVE split(_)
split(s) ==
  IF s = <<>> THEN <<>>
  ELSE IF s[1] \in Whitespace THEN split(Tail(s))
  ELSE LET n == WordLen(s, Whitespace)
       IN  <<SubSeq(s, 1, n)>> \o split(SubSeq(s, n + 1, Len(s)))

\* sep.join(words)
RECURSIVE join(_, _)
join(sep, words) ==
  IF words = <<>> THEN <<>>
  ELSE IF Len(words) = 1 THEN words[1]
  ELSE words[1] \o sep \o join(sep, Tail(words))

IsAlnum(c) ==
  LET n == ord(c)
  IN  \/ n >= 48 /\ n <= 57
      \/ n >= 65 /\ n <= 90
      \/ n >= 97 /\ n <= 122

\* _filename_ascii_strip_re.sub("", s): drops what is not in [A-Za-z0-9_.-]
filename_ascii_strip(s) == SelectSeq(s, LAMBDA c : IsAlnum(c) \/ c \in {"_", ".", "-"})

\* s.strip(chars)
RECURSIVE lstrip(_, _)
lstrip(s, chars) == IF s # <<>> /\ s[1] \in chars THEN lstrip(Tail(s), chars) ELSE s

RECURSIVE rstrip(_, _)
rstrip(s, chars) ==
  IF s # <<>> /\ s[Len(s)] \in chars THEN rstrip(SubSeq(s, 1, Len(s) - 1), chars) ELSE s

strip(s, chars) == rstrip(lstrip(s, chars), chars)

secure_filename(filename) ==
  LET normalized == ascii_ignore(nfkd(filename))
      no_sep     == replace_char(normalized, "/", " ")
      joined     == join(<<"_">>, split(no_sep))
  IN  strip(filename_ascii_strip(joined), {".", "_"})

---------------------------------------------------------------------------
(* uuid.uuid4, os.path.join and url_for, as called by the handlers *)

HexDigits == <<"0", "1", "2", "3", "4", "5", "6", "7", "8", "9", "a", "b", "c", "d", "e", "f">>

UpperHexDigits ==
  <<"0", "1", "2", "3", "4", "5", "6", "7", "8", "9", "A", "B", "C", "D", "E", "F">>

\* the values uuid.uuid4() returns: nothing in the code remembers which were
\* returned before
Tokens == 1..NumTokens

\* str(uuid.uuid4()): 32 hex digits in groups of 8-4-4-4-12, version 4
uuid_str(t) ==
  <<"0", "0", "0", "0", "0", "0", "0", "0", "-", "0", "0", "0", "0", "-",
    "4", "0", "0", "0", "-", "8", "0", "0", "0", "-",
    "0", "0", "0", "0", "0", "0", "0", "0", "0", "0", "0", HexDigits[t + 1]>>

\* posixpath.join(a, b)
os_path_join(a, b) ==
  IF b # <<>> /\ b[1] = "/" THEN b
  ELSE IF a = <<>> \/ a[Len(a)] = "/" THEN a \o b
  ELSE a \o <<"/">> \o b

\* the UTF-8 bytes of a code point below 65536
utf8(n) ==
  IF n < 128 THEN <<n>>
  ELSE IF n < 2048 THEN <<192 + (n \div 64), 128 + (n % 64)>>
  ELSE <<224 + (n \div 4096), 128 + ((n \div 64) % 64), 128 + (n % 64)>>

percent(b) == <<"%", UpperHexDigits[(b \div 16) + 1], UpperHexDigits[(b % 16) + 1]>>

\* the characters the URL builder leaves as they are in a path
UrlSafe ==
  {"_", ".", "-", "~", "!", "$", "&", "'", "(", ")", "*", "+", ",", "/", ":", ";", "=", "@"}

quote_char(c) ==
  IF IsAlnum(c) \/ c \in UrlSafe THEN <<c>>
  ELSE LET bytes == utf8(ord(c)) IN Flatten([i \in DOMAIN bytes |-> percent(bytes[i])])

\* the URL builder quoting of a path value
quote(s) == Flatten([i \in DOMAIN s |-> quote_char(s[i])])

StaticPrefix == <<"/", "s", "t", "a", "t", "i", "c", "/">>

VideosPrefix == <<"v", "i", "d", "e", "o", "s", "/">>

\* url_for('static', filename=filename)
url_for(filename) == StaticPrefix \o quote(filename)

---------------------------------------------------------------------------
(* The file system *)

\* f with key k set to v
Put(f, k, v) == [x \in DOMAIN f \cup {k} |-> IF x = k THEN v ELSE f[x]]

\* the function with an empty domain: a directory without entries
NoFiles == [n \in {} |-> 0]

\* the content of a file that was opened for writing and not written fully
Truncated == 0

\* the upload payloads: two that differ, each other than a truncated file
Bodies == {1, 2}

\* os.listdir(VIDEO_DIR): the names of the entries (the handlers sort them)
os_listdir == DOMAIN files

\* the entry of the media directory a path names, <<>> when the path names
\* no direct child of it
ChildName(path) ==
  LET base == UPLOAD_FOLDER \o <<"/">>
      rest == SubSeq(path, Len(base) + 1, Len(path))
  IN  IF /\ Len(path) > Len(base)
         /\ SubSeq(path, 1, Len(base)) = base
         /\ "/" \notin Range(rest)
         /\ rest \notin {<<".">>, <<".", ".">>}
      THEN rest
      ELSE <<>>

\* file.save(path): open(path, "wb") and copy the payload.  sv is what
\* happens: "ok", "open_error" (nothing is touched) or "write_error" (the
\* file is there, truncated)
file_save(path, body, sv) ==
  IF sv = "open_error" THEN UNCHANGED <<files, outside>>
  ELSE LET content == IF sv = "ok" THEN body ELSE Truncated
       IN  IF ChildName(path) # <<>>
           THEN files' = Put(files, ChildName(path), content) /\ UNCHANGED outside
           ELSE outside' = outside \cup {path} /\ UNCHANGED files

\* str(e) of the exception file.save raises
cause(sv) ==
  IF sv = "open_error" THEN "[Errno 13] Permission denied"
  ELSE "[Errno 28] No space left on device"

---------------------------------------------------------------------------
(* Responses *)

NoRequest == [route |-> "none", has_file |-> FALSE, filename |-> <<>>]

\* what os.makedirs and file.save did during a request, "" for a call that
\* was not made
NoCalls == [makedirs |-> "", save |-> ""]

NoResponse == [status |-> 0, kind |-> "none", success |-> "", message |-> "", videos |-> <<>>]

\* jsonify({'success': ..., 'message': ...}), status 200
jsonify_result(success, message) ==
  [status |-> 200, kind |-> "json", success |-> IF success THEN "true" ELSE "false",
   message |-> message, videos |-> <<>>]

\* jsonify({'videos': urls}), status 200
jsonify_videos(urls) ==
  [status |-> 200, kind |-> "json", success |-> "", message |-> "", videos |-> urls]

\* render_template('index.html', video_sources=urls), status 200
render_template(urls) ==
  [status |-> 200, kind |-> "html", success |-> "", message |-> "", videos |-> urls]

\* what Flask answers when a handler raises: 500 Internal Server Error
unhandled_exception ==
  [status |-> 500, kind |-> "html", success |-> "", message |-> "Internal Server Error",
   videos |-> <<>>]

NotFoundMessage == "Error: Video directory not found. Please create it and add videos."

InvalidTypeMessage ==
  "Invalid file type. Please upload videos (mp4, avi, mov, etc.) or images (jpg, png, etc.)"

---------------------------------------------------------------------------
(* The handlers *)

\* the listing without sorted(): the names as the directory yields them, here
\* the largest first
index_video_urls_unsorted ==
  LET video_files == sorted({f \in os_listdir : allowed_file(f)})
  IN  [i \in DOMAIN video_files |->
         url_for(VideosPrefix \o video_files[Len(video_files) + 1 - i])]

\* lines 34 and 40: the filtered listing, sorted, as URLs
index_video_urls ==
  LET video_files == sorted({f \in os_listdir : allowed_file(f)})
  IN  [i \in DOMAIN video_files |-> url_for(VideosPrefix \o video_files[i])]

\* GET / that creates a missing media directory before it lists it
index_creating_directory ==
  /\ req' = [route |-> "index", has_file |-> FALSE, filename |-> <<>>]
  /\ resp' = render_template(index_video_urls)
  /\ calls' = [makedirs |-> IF dir_exists THEN "exists" ELSE "created", save |-> ""]
  /\ dir_exists' = TRUE
  /\ UNCHANGED <<files, outside>>

\* GET /
index ==
  /\ req' = [route |-> "index", has_file |-> FALSE, filename |-> <<>>]
  /\ IF dir_exists
     THEN resp' = render_template(index_video_urls)
     ELSE resp' = [status |-> 500, kind |-> "text", success |-> "",
                   message |-> NotFoundMessage, videos |-> <<>>]
  /\ calls' = NoCalls
  /\ UNCHANGED <<dir_exists, files, outside>>

\* lines 88 and 89: the filtered listing, sorted, as URLs
get_videos_urls ==
  LET video_files == sorted({f \in os_listdir : allowed_file(f)})
  IN  [i \in DOMAIN video_files |-> url_for(VideosPrefix \o video_files[i])]

\* GET /api/videos that answers a missing directory as GET / does
get_videos_hard_failure ==
  /\ req' = [route |-> "api", has_file |-> FALSE, filename |-> <<>>]
  /\ IF dir_exists
     THEN resp' = jsonify_videos(get_videos_urls)
     ELSE resp' = [status |-> 500, kind |-> "text", success |-> "",
                   message |-> NotFoundMessage, videos |-> <<>>]
  /\ calls' = NoCalls
  /\ UNCHANGED <<dir_exists, files, outside>>

\* GET /api/videos
get_videos ==
  /\ req' = [route |-> "api", has_file |-> FALSE, filename |-> <<>>]
  /\ IF dir_exists
     THEN resp' = jsonify_videos(get_videos_urls)
     ELSE resp' = jsonify_videos(<<>>)
  /\ calls' = NoCalls
  /\ UNCHANGED <<dir_exists, files, outside>>

\* the client's file name used as it came, without secure_filename
original_filename_unsanitized(filename) == filename

\* line 67
original_filename(filename) == secure_filename(filename)

\* the sanitized name stored without the uuid4 prefix
stored_filename_without_token(token, filename) == original_filename(filename)

\* line 68
stored_filename(token, filename) == uuid_str(token) \o <<"_">> \o original_filename(filename)

\* line 69
file_path(token, filename) == os_path_join(UPLOAD_FOLDER, stored_filename(token, filename))

\* os.makedirs(UPLOAD_FOLDER, exist_ok=True) with outcome mk: it raises
\* ("error") or returns with the directory in place ("ok")
makedirs_raises(mk) == mk = "error"

\* the accepted upload with file.save outside any try block: its exception
\* reaches Flask
store_upload_without_try(filename, token, body, mk, sv) ==
  IF makedirs_raises(mk)
  THEN /\ resp' = unhandled_exception
       /\ calls' = [makedirs |-> "error", save |-> ""]
       /\ UNCHANGED <<dir_exists, files, outside>>
  ELSE /\ dir_exists' = TRUE
       /\ calls' = [makedirs |-> IF dir_exists THEN "exists" ELSE "created", save |-> sv]
       /\ file_save(file_path(token, filename), body, sv)
       /\ resp' = IF sv = "ok"
                  THEN jsonify_result(TRUE, "File uploaded successfully!")
                  ELSE unhandled_exception

\* the accepted upload without os.makedirs: in a missing directory open()
\* fails and the except clause reports it
store_upload_without_makedirs(filename, token, body, mk, sv) ==
  IF ~dir_exists
  THEN /\ resp' = jsonify_result(FALSE, "Upload failed: [Errno 2] No such file or directory")
       /\ calls' = [makedirs |-> "", save |-> "open_error"]
       /\ UNCHANGED <<dir_exists, files, outside>>
  ELSE /\ calls' = [makedirs |-> "", save |-> sv]
       /\ file_save(file_path(token, filename), body, sv)
       /\ resp' = IF sv = "ok"
                  THEN jsonify_result(TRUE, "File uploaded successfully!")
                  ELSE jsonify_result(FALSE, "Upload failed: " \o cause(sv))
       /\ UNCHANGED dir_exists

\* lines 65 to 78: the accepted upload.  makedirs is called before the try
\* block, file.save inside it
store_upload(filename, token, body, mk, sv) ==
  IF makedirs_raises(mk)
  THEN /\ resp' = unhandled_exception
       /\ calls' = [makedirs |-> "error", save |-> ""]
       /\ UNCHANGED <<dir_exists, files, outside>>
  ELSE /\ dir_exists' = TRUE
       /\ calls' = [makedirs |-> IF dir_exists THEN "exists" ELSE "created", save |-> sv]
       /\ file_save(file_path(token, filename), body, sv)
       /\ resp' = IF sv = "ok"
                  THEN jsonify_result(TRUE, "File uploaded successfully!")
                  ELSE jsonify_result(FALSE, "Upload failed: " \o cause(sv))

\* POST /upload that ensures the upload directory exists before it looks at
\* the request
upload_file_makedirs_first(has_file, filename, token, body, mk, sv) ==
  /\ req' = [route |-> "upload", has_file |-> has_file, filename |-> filename]
  /\ IF has_file /\ filename # <<>> /\ allowed_file(filename)
     THEN store_upload(filename, token, body, mk, sv)
     ELSE /\ resp' = jsonify_result(FALSE, IF has_file /\ filename # <<>>
                                           THEN InvalidTypeMessage
                                           ELSE "No file selected")
          /\ calls' = [makedirs |-> IF dir_exists THEN "exists" ELSE "created", save |-> ""]
          /\ dir_exists' = TRUE
          /\ UNCHANGED <<files, outside>>

\* POST /upload
upload_file(has_file, filename, token, body, mk, sv) ==
  /\ req' = [route |-> "upload", has_file |-> has_file, filename |-> filename]
  /\ IF ~has_file
     THEN /\ resp' = jsonify_result(FALSE, "No file selected")
          /\ calls' = NoCalls
          /\ UNCHANGED <<dir_exists, files, outside>>
     ELSE IF filename = <<>>
     THEN /\ resp' = jsonify_result(FALSE, "No file selected")
          /\ calls' = NoCalls
          /\ UNCHANGED <<dir_exists, files, outside>>
     ELSE IF filename # <<>> /\ allowed_file(filename)
     THEN store_upload(filename, token, body, mk, sv)
     ELSE /\ resp' = jsonify_result(FALSE, InvalidTypeMessage)
          /\ calls' = NoCalls
          /\ UNCHANGED <<dir_exists, files, outside>>

---------------------------------------------------------------------------
(* Inputs *)

\* entries found in the media directory before the first request: B.mp4,
\* a.MOV, notes.txt, README, "a b.gif"
DirPool ==
  { <<"B", ".", "m", "p", "4">>,
    <<"a", ".", "M", "O", "V">>,
    <<"n", "o", "t", "e", "s", ".", "t", "x", "t">>,
    <<"R", "E", "A", "D", "M", "E">>,
    <<"a", " ", "b", ".", "g", "i", "f">> }

\* file names clients send: clip.mp4, malware.exe, the empty name,
\* <CJK ideograph>.png
ClientNames ==
  { <<"c", "l", "i", "p", ".", "m", "p", "4">>,
    <<"m", "a", "l", "w", "a", "r", "e", ".", "e", "x", "e">>,
    <<>>,
    <<"U+4E2D", ".", "p", "n", "g">> }

\* ../../etc/passwd.mp4
TraversalName ==
  <<".", ".", "/", ".", ".", "/", "e", "t", "c", "/", "p", "a", "s", "s", "w", "d",
    ".", "m", "p", "4">>

\* the pieces generated client file names are made of
Parts ==
  { <<".">>, <<"/">>, <<"\\">>, <<"_">>, <<"a">>, <<"U+00E9">>, <<"U+4E2D">>,
    <<".", "G", "i", "f">>, <<".", ".", "/">> }

\* the file names made of at most n parts
RECURSIVE NamesOfParts(_)
NamesOfParts(n) ==
  IF n = 0 THEN {<<>>}
  ELSE LET shorter == NamesOfParts(n - 1)
       IN  shorter \cup {s \o p : s \in shorter, p \in Parts}

GeneratedNames == NamesOfParts(MaxParts) \cup {TraversalName}

\* what os.makedirs(..., exist_ok=True) can do: with the directory in place
\* there is nothing to create and nothing to fail
MakedirsOutcomes == IF dir_exists THEN {"ok"} ELSE {"ok", "error"}

SaveOutcomes == {"ok", "open_error", "write_error"}

\* the token, the payload and the outcomes of the system calls, which the
\* handler reaches only with a file name it accepts
StoreInputs(filename) ==
  IF filename # <<>> /\ allowed_file(filename)
  THEN Tokens \X Bodies \X MakedirsOutcomes \X SaveOutcomes
  ELSE {<<1, 1, "ok", "ok">>}

---------------------------------------------------------------------------
(* The application: any sequence of requests *)

Init ==
  /\ dir_exists \in BOOLEAN
  /\ files \in IF dir_exists
               THEN {[n \in S |-> 1] : S \in {S \in SUBSET DirPool : Cardinality(S) <= MaxInitFiles}}
               ELSE {NoFiles}
  /\ outside = {}
  /\ req = NoRequest
  /\ calls = NoCalls
  /\ resp = NoResponse

GetIndex == index

GetApiVideos == get_videos

PostUploadWithoutFile ==
  /\ Cardinality(DOMAIN files) < MaxFiles
  /\ upload_file(FALSE, <<>>, 1, 1, "ok", "ok")

PostUpload ==
  /\ Cardinality(DOMAIN files) < MaxFiles
  /\ \E filename \in ClientNames : \E inp \in StoreInputs(filename) :
       upload_file(TRUE, filename, inp[1], inp[2], inp[3], inp[4])

Next == GetIndex \/ GetApiVideos \/ PostUploadWithoutFile \/ PostUpload

Spec == Init /\ [][Next]_vars

---------------------------------------------------------------------------
(* One upload of any generated file name into an empty or missing           *)
(* directory, then reads                                                   *)

InitNames ==
  /\ dir_exists \in BOOLEAN
  /\ files = NoFiles
  /\ outside = {}
  /\ req = NoRequest
  /\ calls = NoCalls
  /\ resp = NoResponse

PostFirstUpload ==
  /\ req = NoRequest
  /\ \E filename \in GeneratedNames : \E inp \in StoreInputs(filename) :
       upload_file(TRUE, filename, inp[1], inp[2], inp[3], inp[4])

NextNames == PostFirstUpload \/ GetIndex \/ GetApiVideos

SpecNames == InitNames /\ [][NextNames]_vars

---------------------------------------------------------------------------
(* What the claims are stated with *)

\* the extensions the specification lists
ListedExtensions ==
  { <<"m", "p", "4">>, <<"a", "v", "i">>, <<"m", "o", "v">>, <<"w", "m", "v">>,
    <<"f", "l", "v">>, <<"w", "e", "b", "m">>, <<"j", "p", "g">>,
    <<"j", "p", "e", "g">>, <<"p", "n", "g">>, <<"g", "i", "f">> }

\* the name contains a "." and the text after the last one, lowercased, is a
\* listed extension
HasListedExtension(name) ==
  \E i \in DOMAIN name :
     /\ name[i] = "."
     /\ \A j \in (i + 1)..Len(name) : name[j] # "."
     /\ lower(SubSeq(name, i + 1, Len(name))) \in ListedExtensions

\* s comes before t in lexicographic order of code points
LexLess(s, t) ==
  \E i \in 1..(Len(s) + 1) :
     /\ i <= Len(t)
     /\ \A j \in 1..(i - 1) : s[j] = t[j]
     /\ i <= Len(s) => ord(s[i]) < ord(t[i])

\* the entries of the media directory that belong to the gallery
ListedNames == {n \in DOMAIN files : HasListedExtension(n)}

\* urls holds Url(n) for each listed name n and nothing else, in ascending
\* order of name: the URL of n stands at the rank of n among the listed names
IsListing(urls, Url(_)) ==
  /\ Len(urls) = Cardinality(ListedNames)
  /\ \A n \in ListedNames :
       urls[1 + Cardinality({m \in ListedNames : LexLess(m, n)})] = Url(n)

\* static prefix + 'videos/' + name, character for character
PlainUrl(name) == <<"/", "s", "t", "a", "t", "i", "c", "/">> \o <<"v", "i", "d", "e", "o", "s", "/">> \o name

\* static prefix + 'videos/' + name, the name percent-encoded
QuotedUrl(name) ==
  <<"/", "s", "t", "a", "t", "i", "c", "/">> \o <<"v", "i", "d", "e", "o", "s", "/">> \o quote(name)

\* "a b.gif"
NameWithSpace == <<"a", " ", "b", ".", "g", "i", "f">>

---------------------------------------------------------------------------
(* C1 *)

\* C1 as stated: whenever the media directory exists, GET /api/videos
\* returns exactly one URL, static prefix + 'videos/' + name, for each entry
\* with a listed extension, in ascending order of name, and no other URL.
\* Fails: the URL builder percent-encodes the name, "a b.gif" is listed as
\* /static/videos/a%20b.gif.
C1_ListingOfPlainUrls ==
  (req.route = "api" /\ dir_exists) => IsListing(resp.videos, PlainUrl)

\* C1 amended: whenever the media directory exists, GET /api/videos returns
\* exactly one URL, static prefix + 'videos/' + the percent-encoded name, for
\* each entry with a listed extension, in ascending order of name, and no
\* other URL.
C1_ListingOfQuotedUrls ==
  (req.route = "api" /\ dir_exists) => IsListing(resp.videos, QuotedUrl)

\* GET /api/videos answered for a directory of three entries, one of them
\* without a listed extension, one of them "a b.gif": two URLs
C1_Witness ==
  /\ req.route = "api"
  /\ dir_exists
  /\ Cardinality(DOMAIN files) = 3
  /\ NameWithSpace \in DOMAIN files
  /\ \E n \in DOMAIN files : ~HasListedExtension(n)
  /\ Len(resp.videos) = 2

---------------------------------------------------------------------------
(* C2 *)

\* malware.exe
MalwareName == <<"m", "a", "l", "w", "a", "r", "e", ".", "e", "x", "e">>

\* an upload request without a file field, with an empty file name or with a
\* file name whose extension is not listed
IsRejectedUpload(r) ==
  /\ r.route = "upload"
  /\ ~r.has_file \/ r.filename = <<>> \/ ~HasListedExtension(r.filename)

\* C2: a POST /upload without a file field, with an empty file name or with
\* a file name whose extension is not listed is answered with status 200 and
\* a JSON body with success=false (message 'No file selected' in the first
\* two cases), and it leaves the file system as it was: nothing is written,
\* a missing upload directory stays missing.
C2_RejectedUploadLeavesNoTrace ==
  [][IsRejectedUpload(req') =>
       /\ resp'.status = 200
       /\ resp'.kind = "json"
       /\ resp'.success = "false"
       /\ (~req'.has_file \/ req'.filename = <<>>) => resp'.message = "No file selected"
       /\ calls' = [makedirs |-> "", save |-> ""]
       /\ UNCHANGED <<dir_exists, files, outside>>]_vars

\* malware.exe was just rejected while the upload directory is missing
C2_Witness ==
  /\ req.route = "upload"
  /\ req.has_file
  /\ req.filename = MalwareName
  /\ resp.success = "false"
  /\ ~dir_exists

---------------------------------------------------------------------------
(* C3 *)

\* C3: with the media directory missing, GET / returns status 500 with the
\* fixed error message and GET /api/videos returns {"videos": []} with
\* status 200; with the directory in place neither returns an error status.
C3_MissingDirectoryResponses ==
  /\ (req.route = "index" /\ ~dir_exists) =>
       /\ resp.status = 500
       /\ resp.message = "Error: Video directory not found. Please create it and add videos."
  /\ (req.route = "api" /\ ~dir_exists) =>
       /\ resp.status = 200
       /\ resp.kind = "json"
       /\ resp.videos = <<>>
  /\ (req.route \in {"index", "api"} /\ dir_exists) => resp.status = 200

\* GET /api/videos was just answered while the media directory is missing
C3_Witness ==
  /\ req.route = "api"
  /\ ~dir_exists
  /\ resp.status = 200

---------------------------------------------------------------------------
(* C8 *)

\* C8: GET / and GET /api/videos are read-only: handling either leaves the
\* existence of the media directory and the set and content of its files
\* unchanged, and writes nothing elsewhere.
C8_ReadsChangeNothing ==
  [][req'.route \in {"index", "api"} =>
       UNCHANGED <<dir_exists, files, outside>>]_vars

\* GET / was just answered with status 500: the directory is still missing
C8_Witness ==
  /\ req.route = "index"
  /\ resp.status = 500
  /\ ~dir_exists

---------------------------------------------------------------------------
(* C9 *)

\* C9: with the media directory in place, the URL list GET / passes to the
\* page template and the 'videos' list GET /api/videos returns for the same
\* directory state are identical, element for element and in order: a read
\* changes no file, so two reads in a row see the same directory.
C9_PageAndApiAgree ==
  [][(/\ dir_exists
      /\ \/ req.route = "index" /\ req'.route = "api"
         \/ req.route = "api" /\ req'.route = "index")
     => resp'.videos = resp.videos]_vars

\* GET / was just answered with a list of two URLs
C9_Witness ==
  /\ req.route = "index"
  /\ dir_exists
  /\ Len(resp.videos) = 2

---------------------------------------------------------------------------
(* C4 *)

\* clip.mp4
ClipName == <<"c", "l", "i", "p", ".", "m", "p", "4">>

\* '<token>_<sanitized original name>'
TokenName(t, filename) == uuid_str(t) \o <<"_">> \o secure_filename(filename)

IsSuccessfulUpload(r, answer) == r.route = "upload" /\ answer.success = "true"

---------------------------------------------------------------------------
(* C5 *)

\* C5: whatever file name the client sends, an accepted upload is written to
\* a direct child of the upload directory: the stored name contains neither
\* "/" nor "\", is neither "." nor "..", and nothing is written outside
\* static/videos.  (Every entry is an upload: the directory starts empty.)
C5_WritesStayInUploadDirectory ==
  /\ outside = {}
  /\ \A n \in DOMAIN files :
       /\ n # <<>>
       /\ "/" \notin Range(n)
       /\ "\\" \notin Range(n)
       /\ n \notin {<<".">>, <<".", ".">>}

\* ../../etc/passwd.mp4 was uploaded and is stored as <token>_etc_passwd.mp4
C5_Witness ==
  /\ IsSuccessfulUpload(req, resp)
  /\ req.filename = TraversalName
  /\ \E t \in Tokens :
       DOMAIN files =
         {uuid_str(t) \o <<"_", "e", "t", "c", "_", "p", "a", "s", "s", "w", "d", ".", "m", "p", "4">>}

---------------------------------------------------------------------------
(* C6 *)

\* C6: once an upload has returned success=true, the URL of the stored file
\* is in the list of every later GET /api/videos and GET /.  (Every entry
\* with a payload as content was stored by a successful upload: the
\* directory starts empty.)
\* Fails: the extension is checked on the client's name and the name is
\* sanitized afterwards; ".Gif" is accepted and stored as <token>_Gif, which
\* no listing selects.
C6_UploadedFileIsListed ==
  (req.route \in {"index", "api"} /\ dir_exists) =>
     \A n \in DOMAIN files :
        files[n] \in Bodies => QuotedUrl(n) \in Range(resp.videos)

---------------------------------------------------------------------------
(* C7 *)

SaveFailed == calls.save \in {"open_error", "write_error"}

IsSoftFailure(answer) ==
  /\ answer.status = 200
  /\ answer.kind = "json"
  /\ answer.success = "false"
  /\ answer.message \in {"Upload failed: [Errno 13] Permission denied",
                         "Upload failed: [Errno 28] No space left on device"}

\* C7 as stated: when ensuring the destination directory exists or writing
\* the file fails with a system error, POST /upload returns
\* {success: false, message: 'Upload failed: <cause>'} with status 200; the
\* upload route never answers with an HTTP error status.
\* Fails: os.makedirs is called before the try block, its exception is
\* answered with status 500.
C7_EveryStorageErrorIsSoft ==
  req.route = "upload" =>
     /\ resp.status = 200
     /\ (calls.makedirs = "error" \/ SaveFailed) => IsSoftFailure(resp)

\* C7 amended: when writing the file of an accepted upload fails with a
\* system error, POST /upload returns
\* {success: false, message: 'Upload failed: <cause>'} with status 200; the
\* one system error the upload route answers with an HTTP error status (500)
\* is a failure to create the missing destination directory.
C7_WriteErrorIsSoft ==
  req.route = "upload" =>
     /\ SaveFailed => IsSoftFailure(resp)
     /\ resp.status # 200 => (resp.status = 500 /\ calls.makedirs = "error")
     /\ calls.makedirs = "error" => (resp.status = 500 /\ ~dir_exists)

\* an accepted upload whose write failed half way was just answered
C7_Witness ==
  /\ req.route = "upload"
  /\ calls.save = "write_error"
  /\ resp.success = "false"

---------------------------------------------------------------------------
(* C10 *)

\* an upload request that passes validation: a file field, a name that is
\* not empty, a listed extension
IsValidatedUpload(r) ==
  /\ r.route = "upload"
  /\ r.has_file
  /\ r.filename # <<>>
  /\ HasListedExtension(r.filename)

\* C10 as stated: as soon as one upload request passes validation the
\* directory exists, even if the file write fails; no request removes the
\* directory, and with the directory in place GET / returns the page with
\* status 200.
\* Fails: when os.makedirs raises, the request passed validation and the
\* directory is still missing.
C10_ValidatedUploadCreatesDirectory ==
  [][/\ IsValidatedUpload(req') => dir_exists'
     /\ dir_exists => dir_exists'
     /\ (req'.route = "index" /\ dir_exists) => resp'.status = 200]_vars

\* C10 amended: as soon as one upload request that passes validation is
\* answered with a JSON body (os.makedirs did not raise) the directory
\* exists, even if the file write fails; when os.makedirs raises the request
\* is answered with status 500 and the directory is still missing.  No
\* request removes the directory, and with the directory in place GET /
\* returns the page with status 200.
C10_AnsweredUploadCreatesDirectory ==
  [][/\ (IsValidatedUpload(req') /\ resp'.kind = "json") => dir_exists'
     /\ (IsValidatedUpload(req') /\ ~dir_exists') => (resp'.status = 500 /\ ~dir_exists)
     /\ dir_exists => dir_exists'
     /\ (req'.route = "index" /\ dir_exists) => (resp'.status = 200 /\ resp'.kind = "html")]_vars

\* the directory was missing, an accepted upload created it and then could
\* not open the file
C10_Witness ==
  /\ IsValidatedUpload(req)
  /\ calls = [makedirs |-> "created", save |-> "open_error"]
  /\ dir_exists
  /\ files = NoFiles

=============================================================================
